---- MODULE Spec2Model ----
(***************************************************************************)
(* Model of nulab-backlog-actions: a GitHub Action that links pull         *)
(* requests to Backlog issues.  Texts are TLA+ strings; the tracking       *)
(* markers, the issue URL and the two parsers are computed on the          *)
(* characters, as the TypeScript does.  Non-ASCII literals of the source   *)
(* (the link emoji, the check mark, the arrow and the two Japanese status  *)
(* labels) are written with ASCII stand-ins that contain no keyword and no *)
(* issue key.                                                              *)
(***************************************************************************)
EXTENDS Integers, Sequences, FiniteSets, TLC

(***************************************************************************)
(* Characters and strings                                                  *)
(***************************************************************************)
UpperLetters == "ABCDEFGHIJKLMNOPQRSTUVWXYZ"
LowerLetters == "abcdefghijklmnopqrstuvwxyz"
DigitChars == {"0","1","2","3","4","5","6","7","8","9"}
UpperSet == {SubSeq(UpperLetters, i, i) : i \in 1..26}
LowerSet == {SubSeq(LowerLetters, i, i) : i \in 1..26}
LetterSet == UpperSet \cup LowerSet
\* [A-Z0-9_] under the i flag, and JavaScript's \w: the same ASCII class.
WordChars == LetterSet \cup DigitChars \cup {"_"}
\* JavaScript's \s, restricted to the ASCII white space the texts here use.
SpaceChars == {" ", "\n", "\t", "\r"}

\* The character at 1-based position i, or "" outside the string.
Ch(s, i) == IF i >= 1 /\ i <= Len(s) THEN SubSeq(s, i, i) ELSE ""

\* String.prototype.toUpperCase on one ASCII character.
UpperChar(c) ==
    IF c \in LowerSet
    THEN LET i == CHOOSE j \in 1..26 : SubSeq(LowerLetters, j, j) = c
         IN SubSeq(UpperLetters, i, i)
    ELSE c

RECURSIVE ToUpperFrom(_, _)
ToUpperFrom(s, i) ==
    IF i > Len(s) THEN "" ELSE UpperChar(Ch(s, i)) \o ToUpperFrom(s, i + 1)

\* Mutant: the key is kept as written.
keepCase(s) == s

toUpperCase(s) == ToUpperFrom(s, 1)

\* String.prototype.toLowerCase on one ASCII character.
LowerChar(c) ==
    IF c \in UpperSet
    THEN LET i == CHOOSE j \in 1..26 : SubSeq(UpperLetters, j, j) = c
         IN SubSeq(LowerLetters, i, i)
    ELSE c

RECURSIVE ToLowerFrom(_, _)
ToLowerFrom(s, i) ==
    IF i > Len(s) THEN "" ELSE LowerChar(Ch(s, i)) \o ToLowerFrom(s, i + 1)

toLowerCase(s) == ToLowerFrom(s, 1)

\* s.startsWith(p) at 1-based position i.
StartsWithAt(s, p, i) ==
    /\ i + Len(p) - 1 <= Len(s)
    /\ SubSeq(s, i, i + Len(p) - 1) = p

\* String.prototype.includes: exact, case-sensitive substring containment.
includes(s, sub) == \E i \in 1..(Len(s) - Len(sub) + 1) : StartsWithAt(s, sub, i)

\* String.prototype.endsWith.
endsWith(s, suffix) ==
    /\ Len(suffix) <= Len(s)
    /\ SubSeq(s, Len(s) - Len(suffix) + 1, Len(s)) = suffix

\* String.prototype.trim.
RECURSIVE TrimLeft(_)
TrimLeft(s) ==
    IF Len(s) > 0 /\ Ch(s, 1) \in SpaceChars THEN TrimLeft(SubSeq(s, 2, Len(s))) ELSE s

RECURSIVE TrimRight(_)
TrimRight(s) ==
    IF Len(s) > 0 /\ Ch(s, Len(s)) \in SpaceChars
    THEN TrimRight(SubSeq(s, 1, Len(s) - 1))
    ELSE s

trim(s) == TrimRight(TrimLeft(s))

\* The number of consecutive characters of class cls from position i, at most max.
RECURSIVE RunLen(_, _, _, _)
RunLen(s, i, cls, max) ==
    IF max = 0 \/ Ch(s, i) \notin cls THEN 0 ELSE 1 + RunLen(s, i + 1, cls, max - 1)

\* The regular expression assertion \b between positions i-1 and i.
WordBoundary(s, i) == (Ch(s, i - 1) \in WordChars) # (Ch(s, i) \in WordChars)

(***************************************************************************)
(* Marker codec (github.ts)                                                *)
(***************************************************************************)
\* Mutant: only the https:// prefix is removed.
cleanHostHttpsOnly(host) ==
    IF StartsWithAt(host, "https://", 1) THEN SubSeq(host, 9, Len(host)) ELSE host

\* host.replace(/^https?:\/\//, '') followed by the URL template.
cleanHost(host) ==
    IF StartsWithAt(host, "https://", 1) THEN SubSeq(host, 9, Len(host))
    ELSE IF StartsWithAt(host, "http://", 1) THEN SubSeq(host, 8, Len(host))
    ELSE host

buildBacklogIssueUrl(host, issueKey) == "https://" \o cleanHost(host) \o "/view/" \o issueKey

buildBacklogLinkMarker(issueKey) == "<!-- backlog-link:" \o issueKey \o " -->"

buildMergeMarker(issueKey) == "<!-- backlog-merged:" \o issueKey \o " -->"

(***************************************************************************)
(* Annotation parser (the parser half of github.ts)                        *)
(***************************************************************************)
FIX_KEYWORDS == <<"fix", "fixes", "fixed", "resolve", "resolves", "resolved">>
CLOSE_KEYWORDS == <<"close", "closes", "closed">>
ALL_KEYWORDS == FIX_KEYWORDS \o CLOSE_KEYWORDS

SeqRange(q) == {q[i] : i \in 1..Len(q)}

\* ISSUE_KEY_PATTERN = [A-Z][A-Z0-9_]{0,24}-\d{1,6} under the i flag, started at
\* position i: the pairs <<n, d>> of repetition counts (n characters after the
\* first letter, d digits) for which the pattern matches s[i .. i+n+1+d].
MaxProjectTail == 24
MaxIssueDigits == 6
IssueKeyCounts(s, i) ==
    IF Ch(s, i) \notin LetterSet THEN {}
    ELSE LET g == RunLen(s, i + 1, WordChars, MaxProjectTail)
         IN {nd \in (0..g) \X (1..MaxIssueDigits) :
                /\ Ch(s, i + 1 + nd[1]) = "-"
                /\ RunLen(s, i + 2 + nd[1], DigitChars, nd[2]) = nd[2]}

\* Mutant: the pattern has no lookahead.
NoLookahead(s, j) == TRUE

\* (?!\d): the next character is not a digit.
NotDigitNext(s, j) == Ch(s, j) \notin DigitChars

\* \b after the key.
BoundaryNext(s, j) == WordBoundary(s, j)

\* What a pattern demands right after the issue key, at position j.
Lookahead(after, s, j) ==
    IF after = "notDigit" THEN NotDigitNext(s, j) ELSE BoundaryNext(s, j)

\* The end position of the match the backtracking engine returns: both
\* quantifiers are greedy, so the longest project tail is tried first and, for
\* it, the longest digit run; after names what the pattern demands next.
\* 0 when nothing matches.
IssueKeyEnd(s, i, after) ==
    LET ok == {nd \in IssueKeyCounts(s, i) : Lookahead(after, s, i + nd[1] + 1 + nd[2] + 1)}
    IN IF ok = {} THEN 0
       ELSE LET best == CHOOSE nd \in ok : \A o \in ok :
                            \/ o[1] < nd[1]
                            \/ o[1] = nd[1] /\ o[2] <= nd[2]
            IN i + best[1] + 1 + best[2]

\* (?<![A-Z0-9_])ISSUE_KEY_PATTERN(?!\d) at position i; 0 when there is no match.
ExtractMatchEnd(s, i) ==
    IF Ch(s, i - 1) \in WordChars THEN 0 ELSE IssueKeyEnd(s, i, "notDigit")

\* Mutant: the keys are collected in an array, repeats included.
ArrayPush(q, v) == Append(q, v)

\* Set.add on an insertion-ordered Set, kept as a duplicate-free sequence.
SetAdd(q, v) == IF v \in SeqRange(q) THEN q ELSE Append(q, v)

\* RegExp.prototype.exec with the g flag on a table ends[i] of match ends
\* (0: no match at i): the leftmost position at or after pos (lastIndex) with a
\* match, 0 when there is none.
Leftmost(ends, pos) ==
    LET at == {i \in DOMAIN ends : i >= pos /\ ends[i] # 0}
    IN IF at = {} THEN 0 ELSE CHOOSE i \in at : \A j \in at : i <= j

\* The exec loop of extractIssueKeys: each match is added, and the search goes
\* on from lastIndex = the end of the match.
RECURSIVE ExtractFrom(_, _, _, _)
ExtractFrom(text, ends, pos, keys) ==
    LET b == Leftmost(ends, pos)
    IN IF b = 0 THEN keys
       ELSE ExtractFrom(text, ends, ends[b] + 1,
                        SetAdd(keys, toUpperCase(SubSeq(text, b, ends[b]))))

extractIssueKeys(text) ==
    IF text = "" THEN <<>>
    ELSE ExtractFrom(text, [i \in 1..Len(text) |-> ExtractMatchEnd(text, i)], 1, <<>>)

getActionCaseSensitive(keyword) ==
    IF keyword \in SeqRange(FIX_KEYWORDS) THEN "fix"
    ELSE IF keyword \in SeqRange(CLOSE_KEYWORDS) THEN "close"
    ELSE "fix"

getActionFromKeyword(keyword) ==
    LET lowerKeyword == toLowerCase(keyword)
    IN IF lowerKeyword \in SeqRange(FIX_KEYWORDS) THEN "fix"
       ELSE IF lowerKeyword \in SeqRange(CLOSE_KEYWORDS) THEN "close"
       ELSE "fix"

\* The colon class [:：]; the full-width colon is written ";" here, a
\* character the texts of this model use for nothing else.
ColonChars == {":", ";"}

\* \s*[:：]?\s*#? from position j: where the issue key has to start.  Each
\* item is greedy and no shorter choice can match (a skipped character would
\* have to start the key, which begins with a letter).
KeyStartAfterKeyword(s, j) ==
    LET a == j + RunLen(s, j, SpaceChars, Len(s))
        b == IF Ch(s, a) \in ColonChars THEN a + 1 ELSE a
        c == b + RunLen(s, b, SpaceChars, Len(s))
    IN IF Ch(s, c) = "#" THEN c + 1 ELSE c

\* The match of keyword kw at position i: <<keyStart, end>> or <<0, 0>>.
KeywordMatch(s, i, kw) ==
    IF ~ (/\ i + Len(kw) - 1 <= Len(s)
          /\ LowerChar(Ch(s, i)) = Ch(kw, 1)
          /\ toLowerCase(SubSeq(s, i, i + Len(kw) - 1)) = kw)
    THEN <<0, 0>>
    ELSE LET k == KeyStartAfterKeyword(s, i + Len(kw))
             e == IssueKeyEnd(s, k, "boundary")
         IN IF e = 0 THEN <<0, 0>> ELSE <<k, e>>

\* buildAnnotationPattern at position i: \b, then the keyword alternatives in
\* the order of ALL_KEYWORDS, the first that matches wins.
\* <<keywordLength, keyStart, end>> or <<0, 0, 0>>.
AnnotationMatch(s, i) ==
    IF ~ WordBoundary(s, i) THEN <<0, 0, 0>>
    ELSE LET ms == [n \in 1..Len(ALL_KEYWORDS) |-> KeywordMatch(s, i, ALL_KEYWORDS[n])]
             hits == {n \in DOMAIN ms : ms[n][2] # 0}
         IN IF hits = {} THEN <<0, 0, 0>>
            ELSE LET n == CHOOSE h \in hits : \A o \in hits : h <= o
                 IN <<Len(ALL_KEYWORDS[n]), ms[n][1], ms[n][2]>>

\* Mutant: no key is remembered.
seenNothing(annotations) == {}

\* The seenIssueKeys set of parseAnnotations: the keys pushed so far.
seenIssueKeys(annotations) == {annotations[j].issueKey : j \in 1..Len(annotations)}

\* The exec loop of parseAnnotations with its seenIssueKeys set; ms[i] is the
\* match at position i.
RECURSIVE ParseFrom(_, _, _, _)
ParseFrom(text, ms, pos, annotations) ==
    LET b == Leftmost([i \in DOMAIN ms |-> ms[i][3]], pos)
    IN IF b = 0 THEN annotations
       ELSE LET m == ms[b]
                normalizedKey == toUpperCase(SubSeq(text, m[2], m[3]))
                seen == seenIssueKeys(annotations)
                pushed == Append(annotations,
                              [issueKey |-> normalizedKey,
                               action |-> getActionFromKeyword(
                                              SubSeq(text, b, b + m[1] - 1)),
                               originalText |-> trim(SubSeq(text, b, m[3]))])
            IN ParseFrom(text, ms, m[3] + 1,
                         IF normalizedKey \in seen THEN annotations ELSE pushed)

parseAnnotations(text) ==
    IF text = "" THEN <<>>
    ELSE ParseFrom(text, [i \in 1..Len(text) |-> AnnotationMatch(text, i)], 1, <<>>)

(***************************************************************************)
(* Deployment, pull request and event domains                              *)
(***************************************************************************)
\* Two runs of the action may overlap (a duplicate delivery, a retried run).
Procs == {1, 2}
\* The number of runs delivered in one behaviour.
MaxRuns == 2

\* The SyncTarget strategy of the deployed build: markers in the PR description
\* (index.ts 1-252 with github.ts 1-133) or in PR comments (index.ts 254-501
\* with the comment-based GitHubClient).
Variants == {"description", "comment"}

\* Raw action inputs (core.getInput reads strings, getBooleanInput booleans).
DefaultInputs ==
    [backlog_host |-> "example.backlog.com", backlog_api_key |-> "key",
     github_token |-> "token", add_comment |-> TRUE,
     update_status_on_merge |-> TRUE, fix_status_id |-> "", close_status_id |-> ""]

Inputs ==
    { DefaultInputs,
      [DefaultInputs EXCEPT !.backlog_host = "https://example.backlog.com",
                            !.fix_status_id = "5", !.close_status_id = "6"],
      [DefaultInputs EXCEPT !.add_comment = FALSE],
      [DefaultInputs EXCEPT !.update_status_on_merge = FALSE],
      [DefaultInputs EXCEPT !.backlog_host = ""],
      [DefaultInputs EXCEPT !.backlog_api_key = ""],
      [DefaultInputs EXCEPT !.github_token = ""] }

\* Title and description as the author wrote them.
PRTexts ==
    { [title |-> "fixes PROJ-1", body |-> ""],
      [title |-> "WEB-7 and proj-1", body |-> "closes #WEB-7\nFix: PROJ-1"],
      [title |-> "Refactor the fixture", body |-> "no issue"] }

\* The issues the tracker holds.
ExistingIssues == {"PROJ-1", "WEB-7", "PROJ-12"}

\* Pull requests that name two issues of one project, the key of one a
\* prefix of the other's.
PrefixTexts ==
    { [title |-> "PROJ-12 then PROJ-1", body |-> "fixes PROJ-12, closes PROJ-1"],
      [title |-> "PROJ-1 then PROJ-12", body |-> "fixes PROJ-1, closes PROJ-12"] }

\* Pull requests where a person has mentioned the issue by its Backlog URL,
\* and pull requests that name an issue the tracker does not hold.
UserTexts ==
    { [title |-> "fixes PROJ-1", body |-> "See https://example.backlog.com/view/PROJ-1"],
      [title |-> "WEB-7 and proj-1", body |-> "closes #WEB-7\nFix: PROJ-1"],
      [title |-> "OLD-9 and PROJ-1", body |-> "closes OLD-9"] }

textToSearch(title, body) == title \o "\n" \o body

AllKeys ==
    UNION {SeqRange(extractIssueKeys(textToSearch(t.title, t.body))) :
              t \in PRTexts \cup PrefixTexts \cup UserTexts}

EventNames == {"pull_request", "push"}
PRActions == {"opened", "reopened", "ready_for_review", "edited", "closed", "labeled"}
Actors == {"alice", "github-actions[bot]"}

\* github.context of one run.  A push event has no action and no
\* payload.pull_request; a pull request reports merged only when it is closed,
\* and a draft is never merged.
Contexts ==
    { c \in [eventName : EventNames, action : PRActions \cup {"none"}, actor : Actors,
             draft : BOOLEAN, merged : BOOLEAN] :
        /\ (c.eventName = "push") <=> (c.action = "none")
        /\ c.eventName = "push" => ~c.draft /\ ~c.merged
        /\ c.merged => c.action = "closed" /\ ~c.draft }

NoContext ==
    [eventName |-> "", action |-> "", actor |-> "", draft |-> FALSE, merged |-> FALSE]

(***************************************************************************)
(* Configuration (index.ts getConfig)                                      *)
(***************************************************************************)
DigitValue(c) == CHOOSE v \in 0..9 : SubSeq("0123456789", v + 1, v + 1) = c

\* parseInt(s, 10) on an unsigned input: the value of the leading digits, or
\* "NaN" when there is none.
RECURSIVE ParseDigits(_, _, _)
ParseDigits(s, i, acc) ==
    IF Ch(s, i) \in DigitChars THEN ParseDigits(s, i + 1, acc * 10 + DigitValue(Ch(s, i)))
    ELSE acc

parseInt(s) == IF Ch(s, 1) \in DigitChars THEN ParseDigits(s, 1, 0) ELSE "NaN"

DefaultFixStatusId == "3"
DefaultCloseStatusId == "4"

\* Mutant: only the host is required.
ConfigThrowsOnHostOnly(in) == in.backlog_host = ""

\* core.getInput(name, {required: true}) throws on an empty value.
ConfigThrows(in) ==
    in.backlog_host = "" \/ in.backlog_api_key = "" \/ in.github_token = ""

\* The Error getConfig throws: the inputs are read in the order host, key,
\* token, and the first empty one is named.
getConfigError(in) ==
    [isError |-> TRUE,
     message |-> "Input required and not supplied: "
                    \o (IF in.backlog_host = "" THEN "backlog_host"
                        ELSE IF in.backlog_api_key = "" THEN "backlog_api_key"
                        ELSE "github_token")]

\* Mutant: the catch block reports the message of whatever was thrown.
setFailedAnyMessage(thrown) == thrown.message

\* The catch block of run(): the message handed to core.setFailed.
setFailedMessage(thrown) ==
    IF thrown.isError THEN thrown.message ELSE "An unexpected error occurred"

getConfig(in) ==
    [host |-> in.backlog_host,
     apiKey |-> in.backlog_api_key,
     githubToken |-> in.github_token,
     addComment |-> in.add_comment,
     updateStatusOnMerge |-> in.update_status_on_merge,
     fixStatusId |-> parseInt(IF in.fix_status_id # "" THEN in.fix_status_id
                              ELSE DefaultFixStatusId),
     closeStatusId |-> parseInt(IF in.close_status_id # "" THEN in.close_status_id
                                ELSE DefaultCloseStatusId)]

(***************************************************************************)
(* State                                                                   *)
(***************************************************************************)
VARIABLES
    variant,      \* the SyncTarget strategy of the deployment
    inputs,       \* the workflow's action inputs
    prText,       \* title and description as authored
    prBody,       \* GitHub: the current PR description
    prComments,   \* GitHub: the PR's comment stream, oldest first
    tracker,      \* Backlog: per issue key, status and comments received
    run,          \* per invocation slot: the run() in progress
    runsStarted,  \* runs delivered so far
    linkDone,     \* history: keys whose link comment and marker were both written
    mergeDone     \* history: keys whose merge was processed through the marker write

vars == <<variant, inputs, prText, prBody, prComments, tracker, run, runsStarted,
          linkDone, mergeDone>>

IdleRun ==
    [pc |-> "idle", wf |-> "none", items |-> <<>>, i |-> 0, body |-> "",
     ctx |-> NoContext, log |-> <<>>, preLink |-> {}, preMerge |-> {}]

Init ==
    /\ variant \in Variants
    /\ inputs \in Inputs
    /\ prText \in PRTexts
    /\ prBody = prText.body
    /\ prComments = <<>>
    /\ tracker = [k \in AllKeys |-> [status |-> 1, updates |-> 0, link |-> 0, merge |-> 0]]
    /\ run = [p \in Procs |-> IdleRun]
    /\ runsStarted = 0
    /\ linkDone = {}
    /\ mergeDone = {}

(***************************************************************************)
(* GitHubClient: the marker checks and the texts written                   *)
(***************************************************************************)
\* Description-based client (github.ts).
\* Mutant: the check looks at the description as first written (the payload)
\* instead of the one GitHub holds now.
hasBacklogLinkInPayload(issueKey) == includes(prText.body, buildBacklogLinkMarker(issueKey))

hasBacklogLink(issueKey) == includes(prBody, buildBacklogLinkMarker(issueKey))

\* Mutant: the merge check looks for the link marker.
hasMergeMarkerAsLink(issueKey) == includes(prBody, buildBacklogLinkMarker(issueKey))

hasMergeMarker(issueKey) == includes(prBody, buildMergeMarker(issueKey))

\* Mutant: the section holds the visible link and no hidden marker.
linkSectionVisibleOnly(backlogHost, issueKey) ==
    "\n\n---\n(link) Backlog: [" \o issueKey \o "]("
        \o buildBacklogIssueUrl(backlogHost, issueKey) \o ")\n"

linkSection(backlogHost, issueKey) ==
    "\n\n---\n(link) Backlog: [" \o issueKey \o "]("
        \o buildBacklogIssueUrl(backlogHost, issueKey) \o ")\n"
        \o buildBacklogLinkMarker(issueKey)

\* Mutant: the status line without the hidden merge marker.
statusSectionVisibleOnly(backlogHost, issueKey, statusLabel) ==
    "\n(ok) [" \o issueKey \o "](" \o buildBacklogIssueUrl(backlogHost, issueKey)
        \o ") -> " \o statusLabel \o "\n"

statusSection(backlogHost, issueKey, statusLabel) ==
    "\n(ok) [" \o issueKey \o "](" \o buildBacklogIssueUrl(backlogHost, issueKey)
        \o ") -> " \o statusLabel \o "\n" \o buildMergeMarker(issueKey)

\* Comment-based client.
\* getPRComments: one listComments request without page parameters, which
\* GitHub answers with the first page of the comment stream, oldest first.
PerPage == 30

getPRComments == SubSeq(prComments, 1, IF Len(prComments) < PerPage THEN Len(prComments) ELSE PerPage)

hasBacklogComment(backlogHost, issueKey) ==
    \E n \in 1..Len(getPRComments) :
        includes(getPRComments[n], buildBacklogIssueUrl(backlogHost, issueKey))

linkCommentBody(backlogHost, issueKey) ==
    "Backlog: [" \o issueKey \o "](" \o buildBacklogIssueUrl(backlogHost, issueKey) \o ")"

\* processAnnotation of the comment-based build: its own marker and comment.
hasMergeComment(issueKey) ==
    \E n \in 1..Len(getPRComments) :
        includes(getPRComments[n], "<!-- backlog-merged:" \o issueKey \o " -->")

mergeCommentBody(backlogHost, issueKey, actionLabel) ==
    "<!-- backlog-merged:" \o issueKey \o " -->" \o "\nBacklog [" \o issueKey
        \o "](https://" \o cleanHost(backlogHost) \o "/view/" \o issueKey
        \o ") status -> " \o actionLabel

\* actionLabel: the two Japanese status names, transliterated.
actionLabel(action) == IF action = "fix" THEN "ShoriZumi" ELSE "Kanryo"

\* Mutant: the two status ids are swapped.
targetStatusIdSwapped(action, config) ==
    IF action = "fix" THEN config.closeStatusId ELSE config.fixStatusId

targetStatusId(action, config) ==
    IF action = "fix" THEN config.fixStatusId ELSE config.closeStatusId

(***************************************************************************)
(* run(): dispatch                                                         *)
(***************************************************************************)
\* Mutant: no actor is taken for an automated account.
isNeverBotActor(actor) == FALSE

isBotActor(actor) == actor = "github-actions[bot]" \/ endsWith(actor, "[bot]")

\* getPullRequestInfo: null when the payload has no pull_request.
hasPullRequest(c) == c.eventName = "pull_request"

OpenedActions(v) ==
    IF v = "description"
    THEN {"opened", "reopened", "ready_for_review", "edited"}
    ELSE {"opened", "reopened", "ready_for_review"}

\* Mutant: the draft flag is not looked at.
DispatchDrafts(v, c, config) ==
    IF c.eventName # "pull_request" THEN "none"
    ELSE IF v = "description" /\ c.action = "edited" /\ isBotActor(c.actor) THEN "none"
    ELSE IF c.action \in OpenedActions(v)
         THEN IF config.addComment THEN "A" ELSE "none"
    ELSE IF c.action = "closed"
         THEN IF ~ c.merged THEN "none"
              ELSE IF config.updateStatusOnMerge THEN "B" ELSE "none"
    ELSE "none"

\* Mutant: every closed pull request counts as merged.
DispatchClosed(v, c, config) ==
    IF c.eventName # "pull_request" THEN "none"
    ELSE IF v = "description" /\ c.action = "edited" /\ isBotActor(c.actor) THEN "none"
    ELSE IF c.action \in OpenedActions(v)
         THEN IF c.draft THEN "none"
              ELSE IF config.addComment THEN "A" ELSE "none"
    ELSE IF c.action = "closed"
         THEN IF config.updateStatusOnMerge THEN "B" ELSE "none"
    ELSE "none"

\* The workflow run() calls for context c: "A" (handlePullRequestOpened),
\* "B" (handlePullRequestMerged) or "none".
Dispatch(v, c, config) ==
    IF c.eventName # "pull_request" THEN "none"
    ELSE IF v = "description" /\ c.action = "edited" /\ isBotActor(c.actor) THEN "none"
    ELSE IF ~ hasPullRequest(c) THEN "none"
    ELSE IF c.action \in OpenedActions(v)
         THEN IF c.draft THEN "none"
              ELSE IF config.addComment THEN "A" ELSE "none"
    ELSE IF c.action = "closed"
         THEN IF ~ c.merged THEN "none"
              ELSE IF config.updateStatusOnMerge THEN "B" ELSE "none"
    ELSE "none"

Entry(op, key, arg, res) == [op |-> op, key |-> key, arg |-> arg, res |-> res]

AddLog(r, entries) == [r EXCEPT !.log = @ \o entries]

\* The items of a workflow: issue keys (Workflow A) or annotations (Workflow B).
WorkflowItems(wf, title, body) ==
    IF wf = "A"
    THEN LET issueKeys == extractIssueKeys(textToSearch(title, body))
         IN [n \in 1..Len(issueKeys) |-> [issueKey |-> issueKeys[n], action |-> "none"]]
    ELSE LET annotations == parseAnnotations(textToSearch(title, body))
         IN [n \in 1..Len(annotations) |->
                [issueKey |-> annotations[n].issueKey, action |-> annotations[n].action]]

\* The loop: on to the next item, or the handler returns.
NextItem(r) ==
    IF r.i < Len(r.items)
    THEN [r EXCEPT !.i = @ + 1, !.pc = "check", !.body = ""]
    ELSE [r EXCEPT !.pc = "done", !.body = ""]

\* Mutant: a failed call is logged and the item goes on as if it had succeeded.
ThrowIgnored(r, failed) ==
    [AddLog(r, <<failed, Entry("warning", failed.key, "", "caught")>>)
        EXCEPT !.pc = CASE r.pc = "check" -> IF r.wf = "A" THEN "exists" ELSE "get"
                        [] r.pc = "get" -> "status"
                        [] r.pc = "status" -> "comment"
                        [] r.pc = "comment" -> "wread"
                        [] OTHER -> "wwrite"]

\* Mutant: a failed call ends the whole handler.
ThrowAborts(r, failed) ==
    [AddLog(r, <<failed, Entry(IF r.wf = "A" THEN "warning" ELSE "error",
                               failed.key, "", "caught")>>) EXCEPT !.pc = "done", !.body = ""]

\* Mutant: processAnnotation reports a failure as a warning.
ThrowAsWarning(r, failed) ==
    NextItem(AddLog(r, <<failed, Entry("warning", failed.key, "", "caught")>>))

\* Mutant: a failed status update is logged and the confirmation comment is
\* posted all the same.
ThrowKeepsConfirming(r, failed) ==
    IF failed.op = "updateIssueStatus"
    THEN [AddLog(r, <<failed, Entry("error", failed.key, "", "caught")>>)
             EXCEPT !.pc = "comment"]
    ELSE NextItem(AddLog(r, <<failed, Entry(IF r.wf = "A" THEN "warning" ELSE "error",
                                              failed.key, "", "caught")>>))

\* Mutant: a call that failed is made once more before the item is given up.
ThrowRetriesOnce(r, failed) ==
    IF \E n \in 1..Len(r.log) : r.log[n] = failed
    THEN NextItem(AddLog(r, <<failed, Entry(IF r.wf = "A" THEN "warning" ELSE "error",
                                              failed.key, "", "caught")>>))
    ELSE AddLog(r, <<failed>>)

\* Mutant: a failed call rejects the handler, and run() reports the failure.
ThrowRejects(r, failed) ==
    [AddLog(r, <<failed, Entry("setFailed", "", "request failed", "required")>>)
        EXCEPT !.pc = "done", !.body = ""]

\* Mutant: a failed call starts the loop again from the first item.
ThrowRestarts(r, failed) ==
    [AddLog(r, <<failed, Entry(IF r.wf = "A" THEN "warning" ELSE "error",
                               failed.key, "", "caught")>>)
        EXCEPT !.i = 1, !.pc = "check", !.body = ""]

\* A call of the current item throws: the item's catch block logs it
\* (core.warning in handlePullRequestOpened, core.error in processAnnotation)
\* and the loop goes on with the next item.
Throw(r, failed) ==
    NextItem(AddLog(r, <<failed, Entry(IF r.wf = "A" THEN "warning" ELSE "error",
                                         failed.key, "", "caught")>>))

\* What BacklogClient.getIssue can do for key k: return the issue, or throw
\* because the tracker answered that there is none, or because the request
\* itself failed.
GetIssueOutcomes(k) ==
    (IF k \in ExistingIssues THEN {"ok"} ELSE {"notFound"}) \cup {"transport"}

\* Mutant: only the tracker's "no such issue" answer is caught.
issueExistsNotFoundOnly(outcome) ==
    IF outcome = "ok" THEN "true" ELSE IF outcome = "notFound" THEN "false" ELSE "throw"

\* BacklogClient.issueExists: try { await getIssue; return true } catch
\* { return false }.
issueExists(outcome) == IF outcome = "ok" THEN "true" ELSE "false"

\* Mutant: the issue is reported missing and the key is handled all the same.
PostForMissingIssue(r, k, outcome) ==
    [AddLog(r, <<Entry("issueExists", k, outcome, "false"),
                 Entry("warning", k, "", "not found")>>) EXCEPT !.pc = "comment"]

\* handlePullRequestOpened: issueExists returned false: core.warning and
\* continue with the next key.
SkipMissingIssue(r, k, outcome) ==
    NextItem(AddLog(r, <<Entry("issueExists", k, outcome, "false"),
                         Entry("warning", k, "", "not found")>>))

(***************************************************************************)
(* Actions                                                                 *)
(***************************************************************************)
\* The catch block of run(): one core.setFailed, and run() returns.
runCatch(r, thrown) ==
    [AddLog(r, <<Entry("setFailed", "", setFailedMessage(thrown), "required")>>)
        EXCEPT !.pc = "done"]

\* The run record after run() has executed up to its first await (or to its
\* return): configuration, dispatch, and the handler's parse of title and body.
Started(r, c, itemsA, itemsB) ==
    IF ConfigThrows(inputs)
    THEN runCatch(r, getConfigError(inputs))
    ELSE LET wf == Dispatch(variant, c, getConfig(inputs))
             items == IF wf = "A" THEN itemsA ELSE itemsB
         IN IF wf = "none" \/ Len(items) = 0
            THEN [r EXCEPT !.pc = "done", !.wf = wf]
            ELSE [r EXCEPT !.pc = "check", !.wf = wf, !.items = items, !.i = 1]

\* GitHub starts a run of the action for an event on the pull request, and
\* run() executes up to its first await.  The payload carries the title and the
\* description: the one first written (a re-delivered event) or the current one.
\* ctx holds github.context until the run's next step.
Deliver(p) ==
    /\ run[p].pc \in {"idle", "done"}
    /\ runsStarted < MaxRuns
    /\ \E body \in {prText.body, prBody} :
       \E itemsA \in {WorkflowItems("A", prText.title, body)},
          itemsB \in {WorkflowItems("B", prText.title, body)},
          c \in Contexts :
             run' = [run EXCEPT ![p] =
                        Started([IdleRun EXCEPT !.ctx = c, !.preLink = linkDone,
                                                !.preMerge = mergeDone],
                                c, itemsA, itemsB)]
    /\ runsStarted' = runsStarted + 1
    /\ UNCHANGED <<variant, inputs, prText, prBody, prComments, tracker, linkDone, mergeDone>>

\* The record of the run in slot p as its next step finds it.
Running(p) == [run[p] EXCEPT !.ctx = NoContext]

\* Mutant: the already-handled check never finds a marker.
MarkerNeverPresent(r) == FALSE

\* Mutant: the check also counts a side effect the tracker already holds.
MarkerPresentOrDone(r) ==
    LET k == r.items[r.i].issueKey
    IN \/ IF r.wf = "A" THEN tracker[k].link > 0 ELSE tracker[k].updates > 0
       \/ IF r.wf = "A"
          THEN IF variant = "description" THEN hasBacklogLink(k)
               ELSE hasBacklogComment(getConfig(inputs).host, k)
          ELSE IF variant = "description" THEN hasMergeMarker(k)
               ELSE hasMergeComment(k)

\* The already-handled check of the current item.
MarkerPresent(r) ==
    LET k == r.items[r.i].issueKey
    IN IF r.wf = "A"
       THEN IF variant = "description" THEN hasBacklogLink(k)
            ELSE hasBacklogComment(getConfig(inputs).host, k)
       ELSE IF variant = "description" THEN hasMergeMarker(k)
            ELSE hasMergeComment(k)

CheckMarker(p) ==
    /\ run[p].pc = "check"
    /\ LET r == Running(p)
           k == r.items[r.i].issueKey
       IN \E ok \in BOOLEAN :
             run' = [run EXCEPT ![p] =
                 IF ~ ok
                 THEN Throw(r, Entry("markerCheck", k, "", "error"))
                 ELSE IF MarkerPresent(r)
                 THEN NextItem(AddLog(r, <<Entry("markerCheck", k, "", "present")>>))
                 ELSE [AddLog(r, <<Entry("markerCheck", k, "", "absent")>>)
                          EXCEPT !.pc = IF r.wf = "A" THEN "exists" ELSE "get"]]
    /\ UNCHANGED <<variant, inputs, prText, prBody, prComments, tracker, runsStarted,
                   linkDone, mergeDone>>

\* BacklogClient.issueExists: false for every failure of getIssue.
IssueExists(p) ==
    /\ run[p].pc = "exists"
    /\ LET r == Running(p)
           k == r.items[r.i].issueKey
       IN \E outcome \in GetIssueOutcomes(k) :
             run' = [run EXCEPT ![p] =
                 CASE issueExists(outcome) = "true" ->
                        [AddLog(r, <<Entry("issueExists", k, outcome, "true")>>)
                            EXCEPT !.pc = "comment"]
                   [] issueExists(outcome) = "false" -> SkipMissingIssue(r, k, outcome)
                   [] OTHER -> Throw(r, Entry("issueExists", k, outcome, "error"))]
    /\ UNCHANGED <<variant, inputs, prText, prBody, prComments, tracker, runsStarted,
                   linkDone, mergeDone>>

\* processAnnotation: backlogClient.getIssue.
GetIssue(p) ==
    /\ run[p].pc = "get"
    /\ LET r == Running(p)
           k == r.items[r.i].issueKey
       IN \E ok \in BOOLEAN :
             run' = [run EXCEPT ![p] =
                 IF ok /\ k \in ExistingIssues
                 THEN [AddLog(r, <<Entry("getIssue", k, "", "ok")>>) EXCEPT !.pc = "status"]
                 ELSE Throw(r, Entry("getIssue", k, "", "error"))]
    /\ UNCHANGED <<variant, inputs, prText, prBody, prComments, tracker, runsStarted,
                   linkDone, mergeDone>>

\* processAnnotation: backlogClient.updateIssueStatus.
UpdateStatus(p) ==
    /\ run[p].pc = "status"
    /\ LET r == Running(p)
           k == r.items[r.i].issueKey
           id == targetStatusId(r.items[r.i].action, getConfig(inputs))
       IN \E ok \in BOOLEAN :
             IF ok
             THEN /\ tracker' = [tracker EXCEPT ![k].status = id, ![k].updates = @ + 1]
                  /\ run' = [run EXCEPT ![p] =
                        [AddLog(r, <<Entry("updateIssueStatus", k, id, "ok")>>)
                            EXCEPT !.pc = "comment"]]
             ELSE /\ UNCHANGED tracker
                  /\ run' = [run EXCEPT ![p] =
                        Throw(r, Entry("updateIssueStatus", k, id, "error"))]
    /\ UNCHANGED <<variant, inputs, prText, prBody, prComments, runsStarted,
                   linkDone, mergeDone>>

\* backlogClient.addComment: the link comment (Workflow A) or the merge
\* confirmation (Workflow B).
AddComment(p) ==
    /\ run[p].pc = "comment"
    /\ LET r == Running(p)
           k == r.items[r.i].issueKey
       IN \E ok \in BOOLEAN :
             IF ok
             THEN /\ tracker' = IF r.wf = "A"
                                THEN [tracker EXCEPT ![k].link = @ + 1]
                                ELSE [tracker EXCEPT ![k].merge = @ + 1]
                  /\ run' = [run EXCEPT ![p] =
                        [AddLog(r, <<Entry("addComment", k, "", "ok")>>)
                            EXCEPT !.pc = IF r.wf = "B" /\ variant = "comment"
                                          THEN "wwrite" ELSE "wread"]]
             ELSE /\ UNCHANGED tracker
                  /\ run' = [run EXCEPT ![p] =
                        Throw(r, Entry("addComment", k, "", "error"))]
    /\ UNCHANGED <<variant, inputs, prText, prBody, prComments, runsStarted,
                   linkDone, mergeDone>>

\* Mutant: the marker-writing operations write without looking.
WriteUnchecked(r) == FALSE

\* The test inside the marker-writing operations: body.includes(marker) on the
\* description just read, hasBacklogComment on the comments just listed.
AlreadyWritten(r) == MarkerPresent(r)

\* The first half of addBacklogLinkToDescription, addMergeMarkerToDescription
\* and addBacklogLinkComment: read the SyncTarget again and return when the
\* marker is there.
MarkerRead(p) ==
    /\ run[p].pc = "wread"
    /\ LET r == Running(p)
           k == r.items[r.i].issueKey
       IN \E ok \in BOOLEAN :
             run' = [run EXCEPT ![p] =
                 IF ~ ok
                 THEN Throw(r, Entry("markerRead", k, "", "error"))
                 ELSE IF AlreadyWritten(r)
                 THEN NextItem(AddLog(r, <<Entry("markerRead", k, "", "present")>>))
                 ELSE [AddLog(r, <<Entry("markerRead", k, "", "absent")>>)
                          EXCEPT !.pc = "wwrite",
                                 !.body = IF variant = "description" THEN prBody ELSE ""]]
    /\ UNCHANGED <<variant, inputs, prText, prBody, prComments, tracker, runsStarted,
                   linkDone, mergeDone>>

\* The text the marker write adds for the current item.
MarkerText(r) ==
    LET k == r.items[r.i].issueKey
        host == getConfig(inputs).host
        label == actionLabel(r.items[r.i].action)
    IN IF variant = "description"
       THEN IF r.wf = "A" THEN linkSection(host, k) ELSE statusSection(host, k, label)
       ELSE IF r.wf = "A" THEN linkCommentBody(host, k) ELSE mergeCommentBody(host, k, label)

\* Mutant: the section is put in front of the description.
newBodyPrepended(body, section) == section \o body

\* const newBody = body + linkSection (body + statusSection).
newBody(body, section) == body \o section

\* updatePRBody(body + section) of the description-based client, addPRComment
\* of the comment-based one.
MarkerWrite(p) ==
    /\ run[p].pc = "wwrite"
    /\ LET r == Running(p)
           k == r.items[r.i].issueKey
       IN \E ok \in BOOLEAN :
             IF ok
             THEN /\ IF variant = "description"
                     THEN prBody' = newBody(r.body, MarkerText(r)) /\ UNCHANGED prComments
                     ELSE prComments' = Append(prComments, MarkerText(r)) /\ UNCHANGED prBody
                  /\ linkDone' = IF r.wf = "A" THEN linkDone \cup {k} ELSE linkDone
                  /\ mergeDone' = IF r.wf = "B" THEN mergeDone \cup {k} ELSE mergeDone
                  /\ run' = [run EXCEPT ![p] =
                        NextItem(AddLog(r, <<Entry("markerWrite", k, "", "ok")>>))]
             ELSE /\ UNCHANGED <<prBody, prComments, linkDone, mergeDone>>
                  /\ run' = [run EXCEPT ![p] =
                        Throw(r, Entry("markerWrite", k, "", "error"))]
    /\ UNCHANGED <<variant, inputs, prText, tracker, runsStarted>>

Step(p) ==
    \/ CheckMarker(p)
    \/ IssueExists(p)
    \/ GetIssue(p)
    \/ UpdateStatus(p)
    \/ AddComment(p)
    \/ MarkerRead(p)
    \/ MarkerWrite(p)

\* Overlapping runs: any slot may start a run at any time.
Next == \E p \in Procs : Deliver(p) \/ Step(p)

Spec == Init /\ [][Next]_vars

\* Sequential delivery: a run starts only when no other run is in progress.
NoRunInProgress == \A q \in Procs : run[q].pc \in {"idle", "done"}

DeliverSeq == NoRunInProgress /\ Deliver(1)

NextSeq == DeliverSeq \/ Step(1)

SpecSeq == Init /\ [][NextSeq]_vars

\* Between and during runs, a person edits the pull request: the description
\* is set back to the text without the tracking sections (the description-based
\* build reads whatever getPRBody returns), or a comment is deleted from the
\* stream (the comment-based build reads whatever listComments returns).
UserEdit ==
    /\ variant = "description"
    /\ prBody # prText.body
    /\ prBody' = prText.body
    /\ UNCHANGED <<variant, inputs, prText, prComments, tracker, run, runsStarted,
                   linkDone, mergeDone>>

UserDeleteComment ==
    /\ variant = "comment"
    /\ \E n \in 1..Len(prComments) :
          prComments' = SubSeq(prComments, 1, n - 1) \o SubSeq(prComments, n + 1, Len(prComments))
    /\ UNCHANGED <<variant, inputs, prText, prBody, tracker, run, runsStarted,
                   linkDone, mergeDone>>

NextEdit == NextSeq \/ UserEdit \/ UserDeleteComment

SpecEdit == Init /\ [][NextEdit]_vars

\* Sequential runs for a pull request whose keys are prefixes of one another.
InitKeys ==
    /\ variant \in Variants
    /\ inputs = DefaultInputs
    /\ prText \in PrefixTexts
    /\ prBody = prText.body
    /\ prComments = <<>>
    /\ tracker = [k \in AllKeys |-> [status |-> 1, updates |-> 0, link |-> 0, merge |-> 0]]
    /\ run = [p \in Procs |-> IdleRun]
    /\ runsStarted = 0
    /\ linkDone = {}
    /\ mergeDone = {}

SpecKeys == InitKeys /\ [][NextSeq]_vars

\* Sequential runs for a pull request where a person has mentioned the issue by
\* its Backlog URL: in the description, and in a comment on the pull request.
UserComments ==
    { <<>>,
      <<"Tracked at https://example.backlog.com/view/PROJ-1">>,
      <<"LGTM", "Is this WEB-7?">> }

InitUser ==
    /\ variant \in Variants
    /\ inputs = DefaultInputs
    /\ prText \in UserTexts
    /\ prBody = prText.body
    /\ prComments \in UserComments
    /\ tracker = [k \in AllKeys |-> [status |-> 1, updates |-> 0, link |-> 0, merge |-> 0]]
    /\ run = [p \in Procs |-> IdleRun]
    /\ runsStarted = 0
    /\ linkDone = {}
    /\ mergeDone = {}

SpecUser == InitUser /\ [][NextSeq]_vars

\* Sequential runs of the comment-based build on a pull request that has other
\* comments already: none, one less than a page, a full page.
OtherComments(n) == [i \in 1..n |-> "LGTM"]

InitPaged ==
    /\ variant = "comment"
    /\ inputs = DefaultInputs
    /\ prText \in PRTexts
    /\ prBody = prText.body
    /\ prComments \in {OtherComments(n) : n \in {0, PerPage - 1, PerPage}}
    /\ tracker = [k \in AllKeys |-> [status |-> 1, updates |-> 0, link |-> 0, merge |-> 0]]
    /\ run = [p \in Procs |-> IdleRun]
    /\ runsStarted = 0
    /\ linkDone = {}
    /\ mergeDone = {}

SpecPaged == InitPaged /\ [][NextSeq]_vars

\* Sequential runs between which the backlog_host input of the workflow file is
\* rewritten with or without a protocol prefix.
BareHost == "example.backlog.com"

HostForms == {BareHost, "http://" \o BareHost, "https://" \o BareHost}

InitHost ==
    /\ variant \in Variants
    /\ inputs \in {[DefaultInputs EXCEPT !.backlog_host = h] :
                       h \in {BareHost, "https://" \o BareHost}}
    /\ prText \in PRTexts
    /\ prBody = prText.body
    /\ prComments = <<>>
    /\ tracker = [k \in AllKeys |-> [status |-> 1, updates |-> 0, link |-> 0, merge |-> 0]]
    /\ run = [p \in Procs |-> IdleRun]
    /\ runsStarted = 0
    /\ linkDone = {}
    /\ mergeDone = {}

Reconfigure ==
    /\ NoRunInProgress
    /\ runsStarted >= 1
    /\ \E h \in HostForms \ {inputs.backlog_host} :
          inputs' = [inputs EXCEPT !.backlog_host = h]
    /\ UNCHANGED <<variant, prText, prBody, prComments, tracker, run, runsStarted,
                   linkDone, mergeDone>>

NextHost == NextSeq \/ Reconfigure

SpecHost == InitHost /\ [][NextHost]_vars

\* Re-delivery without end: the opened event of a pull request that is no
\* draft is delivered again whenever no run is in progress.  Calls may fail in
\* the first MaxRuns runs and succeed from then on; runsStarted stops counting
\* one above MaxRuns.
OpenedContext ==
    [eventName |-> "pull_request", action |-> "opened", actor |-> "alice",
     draft |-> FALSE, merged |-> FALSE]

InitLive ==
    /\ variant \in Variants
    /\ inputs = DefaultInputs
    /\ prText \in {t \in PRTexts : extractIssueKeys(textToSearch(t.title, t.body)) # <<>>}
    /\ prBody = prText.body
    /\ prComments = <<>>
    /\ tracker = [k \in AllKeys |-> [status |-> 1, updates |-> 0, link |-> 0, merge |-> 0]]
    /\ run = [p \in Procs |-> IdleRun]
    /\ runsStarted = 0
    /\ linkDone = {}
    /\ mergeDone = {}

Redeliver ==
    /\ NoRunInProgress
    /\ \E body \in {prText.body, prBody} :
       \E itemsA \in {WorkflowItems("A", prText.title, body)},
          itemsB \in {WorkflowItems("B", prText.title, body)} :
             run' = [run EXCEPT ![1] =
                        Started([IdleRun EXCEPT !.ctx = OpenedContext, !.preLink = linkDone,
                                                !.preMerge = mergeDone],
                                OpenedContext, itemsA, itemsB)]
    /\ runsStarted' = IF runsStarted <= MaxRuns THEN runsStarted + 1 ELSE runsStarted
    /\ UNCHANGED <<variant, inputs, prText, prBody, prComments, tracker, linkDone, mergeDone>>

\* The result of the call a step logs.
StepResult == run'[1].log[Len(run[1].log) + 1].res

CallMayFail == StepResult \in {"error", "false"} => runsStarted <= MaxRuns

LiveCheckMarker == CheckMarker(1) /\ CallMayFail

LiveIssueExists == IssueExists(1) /\ CallMayFail

LiveAddComment == AddComment(1) /\ CallMayFail

LiveMarkerRead == MarkerRead(1) /\ CallMayFail

LiveMarkerWrite == MarkerWrite(1) /\ CallMayFail

LiveStep ==
    \/ LiveCheckMarker
    \/ LiveIssueExists
    \/ LiveAddComment
    \/ LiveMarkerRead
    \/ LiveMarkerWrite

NextLive == Redeliver \/ LiveStep

\* Fairness: a run that has started goes on to its end (the runner executes
\* the awaited calls), and the event is delivered again and again: a run is in
\* progress infinitely often.
SpecLive ==
    /\ InitLive
    /\ [][NextLive]_vars
    /\ WF_vars(LiveStep)
    /\ []<>(~ NoRunInProgress)

(***************************************************************************)
(* The functions on their own: the parser and the catch block of run()     *)
(***************************************************************************)
\* The longest text built from words and the longest annotation list.
MaxWords == 3
MaxAnnotations == 3

Words == {"PROJ-1", "proj-1", "WEB-7", "PROJ-12", "word"}

\* The sequences over S of length 1..n.
SeqsUpTo(S, n) == UNION {[1..m -> S] : m \in 1..n}

RECURSIVE Join(_, _)
Join(q, sep) ==
    IF Len(q) = 0 THEN ""
    ELSE IF Len(q) = 1 THEN q[1]
    ELSE q[1] \o sep \o Join(SubSeq(q, 2, Len(q)), sep)

AnnotationPairs == {"fixes", "Close"} \X {"PROJ-1", "web-7", "proj-1"}

\* An annotation list written out as a description: "fixes PROJ-1, Close web-7".
Render(L) == Join([n \in 1..Len(L) |-> L[n][1] \o " " \o L[n][2]], ", ")

\* Texts at the limits of ISSUE_KEY_PATTERN: six and seven digits, a project
\* key of 25 and of 26 characters, a key glued to a word character.
LimitTexts ==
    { "", "no key here", "proj-123 and PROJ-123",
      "PROJ-123456", "PROJ-1234567", "see PROJ-1234567, WEB-7",
      "ABCDEFGHIJKLMNOPQRSTUVWXY-1", "ABCDEFGHIJKLMNOPQRSTUVWXYZ-1",
      "WEB-7 ABCDEFGHIJKLMNOPQRSTUVWXYZ-12 web-7",
      "_PROJ-1", "9PROJ-1", "(PROJ-1)", "PROJ-1-2", "A_B2-10 a_b2-10" }

\* Texts with a keyword at the start, in the middle or at the end of a longer
\* word.
EmbeddedTexts ==
    { "fixture-12", "fixture PROJ-1", "prefixes PROJ-1", "prefixes-12",
      "hotfix: PROJ-1", "fixes-1", "closed-5 WEB-7", "unresolved #WEB-7" }

\* One annotation per text: every keyword in lower case, in upper case and
\* capitalised, followed by every separator the pattern allows (white space,
\* a colon or a full-width colon, a '#') and a key in either case.
Capitalised(s) == toUpperCase(SubSeq(s, 1, 1)) \o SubSeq(s, 2, Len(s))

KeywordSpellings(kw) == {kw, toUpperCase(kw), Capitalised(kw)}

KeywordSeparators == {" ", ":", ": ", " #", ":#", ": #", "; "}

KeySpellings == {"PROJ-1", "web-7"}

KeywordCases ==
    UNION {{[keyword |-> kw, text |-> w \o q[1] \o q[2], key |-> q[2]] :
                <<w, q>> \in KeywordSpellings(kw) \X (KeywordSeparators \X KeySpellings)} :
           kw \in SeqRange(ALL_KEYWORDS)}

KeywordTexts == {c.text : c \in KeywordCases}

FnTexts ==
    LimitTexts
        \cup EmbeddedTexts
        \cup KeywordTexts
        \cup {Join(q, " ") : q \in SeqsUpTo(Words, MaxWords)}
        \cup {Render(L) : L \in SeqsUpTo(AnnotationPairs, MaxAnnotations)}

\* What the try block of run() may throw: the Errors of getConfig, the Error
\* of github.context.repo, and values that are no Error.
ThrownValues ==
    {getConfigError(in) : in \in {i \in Inputs : ConfigThrows(i)}}
        \cup { [isError |-> TRUE,
                message |-> "context.repo requires a GITHUB_REPOSITORY environment variable"],
               [isError |-> FALSE, message |-> "rejected with a string"],
               [isError |-> FALSE, message |-> ""] }

InitFn ==
    /\ variant = "description"
    /\ inputs = DefaultInputs
    /\ prText \in {[title |-> "", body |-> t] : t \in FnTexts}
    /\ prBody = prText.body
    /\ prComments = <<>>
    /\ tracker = [k \in AllKeys |-> [status |-> 1, updates |-> 0, link |-> 0, merge |-> 0]]
    /\ run = [p \in Procs |-> IdleRun]
    /\ runsStarted = 0
    /\ linkDone = {}
    /\ mergeDone = {}

\* extractIssueKeys applied to the text.
ApplyExtract ==
    /\ run[1].pc = "idle"
    /\ \E issueKeys \in {extractIssueKeys(prText.body)} :
          run' = [run EXCEPT ![1] =
                    [IdleRun EXCEPT !.pc = "done", !.wf = "A",
                        !.items = [n \in 1..Len(issueKeys) |->
                                      [issueKey |-> issueKeys[n], action |-> "none"]]]]
    /\ UNCHANGED <<variant, inputs, prText, prBody, prComments, tracker, runsStarted,
                   linkDone, mergeDone>>

\* parseAnnotations applied to the text.
ApplyParse ==
    /\ run[1].pc = "idle"
    /\ \E annotations \in {parseAnnotations(prText.body)} :
          run' = [run EXCEPT ![1] =
                    [IdleRun EXCEPT !.pc = "done", !.wf = "B",
                        !.items = [n \in 1..Len(annotations) |->
                                      [issueKey |-> annotations[n].issueKey,
                                       action |-> annotations[n].action]]]]
    /\ UNCHANGED <<variant, inputs, prText, prBody, prComments, tracker, runsStarted,
                   linkDone, mergeDone>>

\* The try block of run() throws, and the catch block takes the value.
ApplyCatch ==
    /\ run[1].pc = "idle"
    /\ \E thrown \in ThrownValues :
          run' = [run EXCEPT ![1] =
                    runCatch(AddLog(IdleRun,
                                    <<Entry("throw", "", thrown.message,
                                            IF thrown.isError THEN "Error" ELSE "value")>>),
                             thrown)]
    /\ UNCHANGED <<variant, inputs, prText, prBody, prComments, tracker, runsStarted,
                   linkDone, mergeDone>>

NextFn == ApplyExtract \/ ApplyParse \/ ApplyCatch

SpecFn == InitFn /\ [][NextFn]_vars

(***************************************************************************)
(* Properties                                                              *)
(***************************************************************************)
\* The log entries of run p with operation op for key k.
Logged(p, op, k) ==
    {n \in 1..Len(run[p].log) : run[p].log[n].op = op /\ run[p].log[n].key = k}

LoggedWith(p, op, k, res) == {n \in Logged(p, op, k) : run[p].log[n].res = res}

ItemKeys(p) == {run[p].items[n].issueKey : n \in 1..Len(run[p].items)}

MergeSkipIsComplete ==
    \A p \in Procs : \A k \in ItemKeys(p) :
        run[p].wf = "B" /\ LoggedWith(p, "markerCheck", k, "present") # {}
            => \A op \in {"getIssue", "updateIssueStatus", "addComment",
                          "markerRead", "markerWrite"} : Logged(p, op, k) = {}

CheckedAbsentFirst(p, k) ==
    \A n \in Logged(p, "issueExists", k) \cup Logged(p, "getIssue", k)
             \cup Logged(p, "updateIssueStatus", k) \cup Logged(p, "addComment", k) :
        \E m \in LoggedWith(p, "markerCheck", k, "absent") : m < n

\* C3 as stated: over two overlapping runs the link comment, the status update
\* and the merge comment of a key are each executed at most once in total.
C3_AtMostOnceUnderConcurrency ==
    \A k \in AllKeys :
        tracker[k].link <= 1 /\ tracker[k].updates <= 1 /\ tracker[k].merge <= 1

\* C3, amended: each run executes the side effect of an (operation, key) pair
\* at most once, and only after its own check found no marker for the key; so
\* over overlapping runs the total is bounded by the number of runs, not by one.
C3_AtMostOncePerRun ==
    /\ \A p \in Procs : \A k \in ItemKeys(p) :
          /\ Cardinality(LoggedWith(p, "addComment", k, "ok")) <= 1
          /\ Cardinality(LoggedWith(p, "updateIssueStatus", k, "ok")) <= 1
          /\ CheckedAbsentFirst(p, k)
    /\ \A k \in AllKeys :
          /\ tracker[k].link <= runsStarted
          /\ tracker[k].updates <= runsStarted
          /\ tracker[k].merge <= runsStarted

\* Two overlapping runs have both posted the link comment of one key: both
\* are past their check, and neither has finished.
C3_Witness ==
    \E k \in AllKeys :
        /\ tracker[k].link = 2
        /\ \A p \in Procs : run[p].wf = "A" /\ run[p].pc \in {"wread", "wwrite"}
                            /\ LoggedWith(p, "addComment", k, "ok") # {}

\* The current content of the SyncTarget carries the marker of (wf, k).
TargetHolds(wf, k) ==
    IF variant = "description"
    THEN includes(prBody, IF wf = "A" THEN buildBacklogLinkMarker(k) ELSE buildMergeMarker(k))
    ELSE \E n \in 1..Len(prComments) :
            includes(prComments[n],
                     IF wf = "A" THEN buildBacklogIssueUrl(getConfig(inputs).host, k)
                     ELSE buildMergeMarker(k))

After(p, n, op, k) == \E m \in LoggedWith(p, op, k, "ok") : m < n

MarkerSteps(p, k) == Logged(p, "markerRead", k) \cup Logged(p, "markerWrite", k)

\* C5: a marker is written only after the side effect it guards has succeeded
\* in the same run: the link marker write is attempted only after addComment
\* for the key returned, the merge marker write only after updateIssueStatus
\* and then addComment returned; a run in which one of these calls failed for
\* a key makes no marker write for it.
C5_MarkerAfterSideEffect ==
    \A p \in Procs : \A k \in ItemKeys(p) :
        /\ \A n \in MarkerSteps(p, k) :
              /\ After(p, n, "addComment", k)
              /\ run[p].wf = "B" =>
                    \E u \in LoggedWith(p, "updateIssueStatus", k, "ok") :
                    \E c \in LoggedWith(p, "addComment", k, "ok") : u < c /\ c < n
        /\ (LoggedWith(p, "addComment", k, "error") # {}
              \/ LoggedWith(p, "updateIssueStatus", k, "error") # {}
              \/ LoggedWith(p, "getIssue", k, "error") # {})
           => MarkerSteps(p, k) = {}

\* One run has written the marker of one key after its side effect, and has
\* written none for another key whose addComment failed.
C5_Witness ==
    \E p \in Procs : \E k, j \in ItemKeys(p) :
        /\ run[p].pc = "done"
        /\ LoggedWith(p, "markerWrite", k, "ok") # {}
        /\ LoggedWith(p, "addComment", j, "error") # {}
        /\ MarkerSteps(p, j) = {}

\* C6: per-key error isolation in Workflow A: whichever call fails for
\* whichever key, handlePullRequestOpened goes on to every remaining key: all
\* keys before the current one have been attempted, and all keys when it returns.
C6_KeyIsolationA ==
    \A p \in Procs :
        run[p].wf = "A" =>
            \A n \in 1..Len(run[p].items) :
                (n < run[p].i \/ run[p].pc = "done")
                    => Logged(p, "markerCheck", run[p].items[n].issueKey) # {}

\* A Workflow A run has returned after a call failed for its first key and
\* the link comment was posted for its second.
C6_Witness ==
    \E p \in Procs :
        /\ run[p].wf = "A"
        /\ run[p].pc = "done"
        /\ Len(run[p].items) = 2
        /\ \E n \in 1..Len(run[p].log) :
              run[p].log[n].key = run[p].items[1].issueKey /\ run[p].log[n].res = "error"
        /\ LoggedWith(p, "addComment", run[p].items[2].issueKey, "ok") # {}

\* C7: per-annotation error isolation in Workflow B: when getIssue fails for
\* key k, the run makes no updateIssueStatus, no confirmation comment and no
\* marker write for k, the failure is reported with core.error, and every other
\* annotation of the batch is still processed.
C7_AnnotationIsolationB ==
    \A p \in Procs :
        run[p].wf = "B" =>
            /\ \A k \in ItemKeys(p) :
                  LoggedWith(p, "getIssue", k, "error") # {}
                  => /\ Logged(p, "updateIssueStatus", k) = {}
                     /\ Logged(p, "addComment", k) = {}
                     /\ MarkerSteps(p, k) = {}
                     /\ LoggedWith(p, "error", k, "caught") # {}
            /\ \A n \in 1..Len(run[p].items) :
                  (n < run[p].i \/ run[p].pc = "done")
                      => Logged(p, "markerCheck", run[p].items[n].issueKey) # {}

\* A merge run has returned: getIssue failed for its first annotation, and
\* the status of its second was updated.
C7_Witness ==
    \E p \in Procs :
        /\ run[p].wf = "B"
        /\ run[p].pc = "done"
        /\ Len(run[p].items) = 2
        /\ LoggedWith(p, "getIssue", run[p].items[1].issueKey, "error") # {}
        /\ LoggedWith(p, "updateIssueStatus", run[p].items[2].issueKey, "ok") # {}

\* The status id the configuration gives an action.
ConfiguredId(action) ==
    IF action = "fix" THEN getConfig(inputs).fixStatusId ELSE getConfig(inputs).closeStatusId

\* Run p met no marker and no failing call.
CleanRun(p) ==
    \A n \in 1..Len(run[p].log) : run[p].log[n].res \in {"absent", "ok"}

\* C8: in a merge run where every call succeeds and no marker is present, each
\* annotation (k, action) causes exactly one updateIssueStatus(k, id), with id
\* the configured fix id for fix and the configured close id for close, and
\* then exactly one confirmation addComment for k; and no status update of any
\* run carries another id than the one configured for its annotation's action.
C8_StatusIdMapping ==
    \A p \in Procs :
        run[p].wf = "B" =>
            /\ \A n \in 1..Len(run[p].items) :
                  \A m \in Logged(p, "updateIssueStatus", run[p].items[n].issueKey) :
                      run[p].log[m].arg = ConfiguredId(run[p].items[n].action)
            /\ (run[p].pc = "done" /\ CleanRun(p))
               => \A k \in ItemKeys(p) :
                     /\ Cardinality(Logged(p, "updateIssueStatus", k)) = 1
                     /\ Cardinality(Logged(p, "addComment", k)) = 1
                     /\ \A u \in Logged(p, "updateIssueStatus", k) :
                        \A c \in Logged(p, "addComment", k) : u < c

\* A clean merge run with custom status ids has returned after a fix and a
\* close annotation: each issue is in the status configured for its action.
C8_Witness ==
    \E p \in Procs :
        /\ run[p].wf = "B"
        /\ run[p].pc = "done"
        /\ CleanRun(p)
        /\ inputs.fix_status_id = "5"
        /\ \E a, b \in 1..Len(run[p].items) :
              /\ run[p].items[a].action = "fix"
              /\ run[p].items[b].action = "close"
              /\ tracker[run[p].items[a].issueKey].status = 5
              /\ tracker[run[p].items[b].issueKey].status = 6

\* No tracker call and no SyncTarget access is in run p's log.
NoCalls(p) ==
    \A n \in 1..Len(run[p].log) : run[p].log[n].op = "setFailed"

\* The run in slot p has just been delivered: its context is still at hand.
JustDelivered(p) == run[p].ctx # NoContext /\ ~ ConfigThrows(inputs)

\* C9 as stated: run() invokes handlePullRequestOpened exactly when the event
\* is a pull_request event with action opened, reopened, ready_for_review or
\* edited, the PR is no draft, add_comment is true and (for edited) the actor is
\* no automated account; for a draft no call is made.
C9_DispatchA ==
    \A p \in Procs :
        JustDelivered(p) =>
            LET c == run[p].ctx
            IN /\ run[p].wf = "A" <=>
                    /\ c.eventName = "pull_request"
                    /\ c.action \in {"opened", "reopened", "ready_for_review", "edited"}
                    /\ ~ c.draft
                    /\ inputs.add_comment
                    /\ c.action = "edited" => ~ isBotActor(c.actor)
               /\ c.draft => run[p].pc = "done" /\ NoCalls(p)

\* C9, amended: the description-based build dispatches as stated; the
\* comment-based build invokes handlePullRequestOpened for opened, reopened and
\* ready_for_review only, never for edited, and looks at no actor.  In both, a
\* draft PR causes no call.
C9_DispatchAPerBuild ==
    \A p \in Procs :
        JustDelivered(p) =>
            LET c == run[p].ctx
            IN /\ variant = "description" =>
                    (run[p].wf = "A" <=>
                        /\ c.eventName = "pull_request"
                        /\ c.action \in {"opened", "reopened", "ready_for_review", "edited"}
                        /\ ~ c.draft
                        /\ inputs.add_comment
                        /\ c.action = "edited" => ~ isBotActor(c.actor))
               /\ variant = "comment" =>
                    (run[p].wf = "A" <=>
                        /\ c.eventName = "pull_request"
                        /\ c.action \in {"opened", "reopened", "ready_for_review"}
                        /\ ~ c.draft
                        /\ inputs.add_comment)
               /\ c.draft => run[p].pc = "done" /\ NoCalls(p)

\* Both kinds of delivery have happened: an edited event of a person has
\* started Workflow A, and an event of a draft PR has started nothing.
C9_Witness ==
    \E p, q \in Procs :
        /\ JustDelivered(p) /\ JustDelivered(q)
        /\ run[p].ctx.action = "edited" /\ run[p].wf = "A" /\ run[p].pc = "check"
        /\ run[q].ctx.draft /\ run[q].ctx.action = "opened" /\ inputs.add_comment
        /\ run[q].wf = "none"

\* C10: run() invokes handlePullRequestMerged exactly when the event is a
\* pull_request event with action closed, the merged flag is true and
\* update_status_on_merge is true; a PR closed without merging causes no
\* status update, no tracker comment and no marker write.
C10_DispatchB ==
    \A p \in Procs :
        JustDelivered(p) =>
            LET c == run[p].ctx
            IN /\ run[p].wf = "B" <=>
                    /\ c.eventName = "pull_request"
                    /\ c.action = "closed"
                    /\ c.merged
                    /\ inputs.update_status_on_merge
               /\ (c.action = "closed" /\ ~ c.merged)
                    => run[p].wf = "none" /\ run[p].pc = "done" /\ NoCalls(p)

\* Both kinds of delivery have happened: a merged PR has started Workflow B,
\* and a PR closed without merging has started nothing.
C10_Witness ==
    \E p, q \in Procs :
        /\ JustDelivered(p) /\ JustDelivered(q)
        /\ run[p].ctx.merged /\ run[p].wf = "B" /\ run[p].pc = "check"
        /\ run[q].ctx.action = "closed" /\ ~ run[q].ctx.merged
        /\ inputs.update_status_on_merge /\ run[q].wf = "none"

\* C11: no feedback loop: a run triggered by an edited event whose actor name
\* ends in "[bot]" makes no tracker call and no SyncTarget write, and has no
\* further step to take; so the run that a description write of the system
\* causes writes nothing itself, and the chain of runs ends with it.
C11_NoFeedbackLoop ==
    \A p \in Procs :
        (/\ run[p].ctx # NoContext
         /\ run[p].ctx.action = "edited"
         /\ endsWith(run[p].ctx.actor, "[bot]"))
        => /\ run[p].wf = "none"
           /\ run[p].pc = "done"
           /\ NoCalls(p)
           /\ ~ ENABLED Step(p)

\* A run of the description-based build has written a link marker, and the
\* edited event of that write, delivered for a PR that is no draft with
\* add_comment true and a key in its text, has started nothing.
C11_Witness ==
    \E p, q \in Procs :
        /\ variant = "description"
        /\ inputs.add_comment /\ ~ ConfigThrows(inputs)
        /\ LoggedWith(p, "markerWrite", run[p].items[1].issueKey, "ok") # {}
        /\ run[p].wf = "A"
        /\ run[q].ctx # NoContext
        /\ run[q].ctx.action = "edited" /\ run[q].ctx.actor = "github-actions[bot]"
        /\ ~ run[q].ctx.draft
        /\ run[q].pc = "done" /\ run[q].log = <<>>

\* A required input of the deployment is empty.
RequiredInputMissing ==
    inputs.backlog_host = "" \/ inputs.backlog_api_key = "" \/ inputs.github_token = ""

\* Nothing has been sent to the tracker, and the SyncTarget is as the author
\* left it.
NoSideEffect ==
    /\ \A k \in AllKeys : tracker[k].updates = 0 /\ tracker[k].link = 0 /\ tracker[k].merge = 0
    /\ prBody = prText.body
    /\ prComments = <<>>

\* C12: a missing required configuration value (backlog_host,
\* backlog_api_key, github_token) is fatal before any side effect: every run
\* ends on delivery with exactly one failure signal, has made no tracker call
\* and no source-control call, and has no step left.
C12_MissingConfigIsFatal ==
    RequiredInputMissing =>
        /\ NoSideEffect
        /\ \A p \in Procs :
              /\ run[p].pc \in {"idle", "done"}
              /\ ~ ENABLED Step(p)
              /\ run[p].pc = "done" =>
                    /\ Len(run[p].log) = 1
                    /\ run[p].log[1].op = "setFailed"
                    /\ run[p].wf = "none"

\* With no github_token, an opened event of a PR that names an issue has
\* ended in the failure signal.
C12_Witness ==
    \E p \in Procs :
        /\ inputs.github_token = ""
        /\ run[p].ctx # NoContext
        /\ run[p].ctx.action = "opened" /\ ~ run[p].ctx.draft
        /\ prText.title = "fixes PROJ-1"
        /\ run[p].pc = "done"
        /\ run[p].log = <<Entry("setFailed", "",
                                "Input required and not supplied: github_token", "required")>>

\* C13: an error that reaches the top level of run() becomes exactly one
\* failure signal, the last thing the run does, carrying the message of the
\* Error, or the fixed message when the thrown value is no Error; and run()
\* returns instead of rejecting.
C13_TopLevelCatch ==
    \A p \in Procs : \A n \in 1..Len(run[p].log) :
        run[p].log[n].op = "throw" =>
            /\ run[p].pc = "done"
            /\ Len(run[p].log) = n + 1
            /\ run[p].log[n + 1].op = "setFailed"
            /\ run[p].log[n + 1].arg =
                  IF run[p].log[n].res = "Error" THEN run[p].log[n].arg
                  ELSE "An unexpected error occurred"

\* The catch block has taken a value that is no Error and has a text of its
\* own, and has signalled the fixed message.
C13_Witness ==
    \E p \in Procs :
        /\ run[p].pc = "done"
        /\ run[p].log = <<Entry("throw", "", "rejected with a string", "value"),
                          Entry("setFailed", "", "An unexpected error occurred", "required")>>

\* C14: marker presence is monotonic: once the system has written the marker
\* of (op, k), the SyncTarget holds it in every later state reached by any
\* interleaving of runs of Workflow A and Workflow B.
C14_MarkersStay ==
    \A k \in AllKeys :
        /\ k \in linkDone => TargetHolds("A", k)
        /\ k \in mergeDone => TargetHolds("B", k)

\* C15: marker recognition is exact in the issue key: the already-handled
\* check for key k finds a marker only if a marker of exactly k was written;
\* text written for another key, a longer key that k is a prefix of included,
\* never makes the check for k find one.
C15_ExactKeyRecognition ==
    \A p \in Procs : \A k \in ItemKeys(p) :
        LoggedWith(p, "markerCheck", k, "present") # {} => k \in linkDone \cup mergeDone

\* C16: markers of different operation kinds never collide: the Workflow A
\* check for k finds a marker only if the link marker of k was written, and
\* the Workflow B check only if the merge marker of k was written.
C16_NoCrossOperationCollision ==
    \A p \in Procs : \A k \in ItemKeys(p) :
        LoggedWith(p, "markerCheck", k, "present") # {}
            => IF run[p].wf = "A" THEN k \in linkDone ELSE k \in mergeDone

\* The check of workflow wf for key k, as a run would make it now.
CheckNow(wf, k) ==
    MarkerPresent([IdleRun EXCEPT !.wf = wf, !.i = 1,
                                  !.items = <<[issueKey |-> k, action |-> "fix"]>>])

ResultKeys == [n \in 1..Len(run[1].items) |-> run[1].items[n].issueKey]

Extracted == run[1].pc = "done" /\ run[1].wf = "A"

Parsed == run[1].pc = "done" /\ run[1].wf = "B"

\* The positions of text where extractIssueKeys' pattern matches.
KeyStarts(text) == {i \in 1..Len(text) : ExtractMatchEnd(text, i) # 0}

IsUpper(k) == \A i \in 1..Len(k) : Ch(k, i) \notin LowerSet

\* The key matched at position i, and the key's first position in the text.
KeyAt(text, i) == toUpperCase(SubSeq(text, i, ExtractMatchEnd(text, i)))

FirstPos(text, k) ==
    CHOOSE i \in KeyStarts(text) :
        KeyAt(text, i) = k /\ \A j \in KeyStarts(text) : KeyAt(text, j) = k => i <= j

\* C18: for every text, extractIssueKeys returns the keys of the text, each
\* in uppercase, none twice, in the order of their first occurrence; for the
\* empty text it returns the empty sequence.
C18_ExtractUpperUniqueOrdered ==
    Extracted =>
        LET text == prText.body
            keys == ResultKeys
        IN /\ text = "" => keys = <<>>
           /\ SeqRange(keys) = {KeyAt(text, i) : i \in KeyStarts(text)}
           /\ \A a \in 1..Len(keys) : IsUpper(keys[a])
           /\ \A a, b \in 1..Len(keys) : a # b => keys[a] # keys[b]
           /\ \A a, b \in 1..Len(keys) :
                 a < b => FirstPos(text, keys[a]) < FirstPos(text, keys[b])

\* A text that names two keys, the first again in lower case after the second.
C18_Witness ==
    /\ Extracted
    /\ prText.body = "WEB-7 proj-1 WEB-7"
    /\ ResultKeys = <<"WEB-7", "PROJ-1">>

\* A candidate of the text: a start at a letter that no word character
\* precedes, the whole run of word characters, a hyphen, the whole run of
\* digits.  <<start, length of the project key, number of digits>>.
Candidates(text) ==
    {c \in {<<i, RunLen(text, i, WordChars, Len(text)),
                 RunLen(text, i + RunLen(text, i, WordChars, Len(text)) + 1,
                        DigitChars, Len(text))>> : i \in 1..Len(text)} :
        /\ Ch(text, c[1]) \in LetterSet
        /\ Ch(text, c[1] - 1) \notin WordChars
        /\ Ch(text, c[1] + c[2]) = "-"
        /\ c[3] >= 1}

TooLong(c) == c[2] > MaxProjectTail + 1 \/ c[3] > MaxIssueDigits

\* C19: extractIssueKeys never emits a partial match: a candidate with more
\* than six digits or with a project key of more than 25 characters gives no
\* match anywhere inside it, a key that a word character precedes gives none,
\* and the keys returned are exactly the candidates of permitted length.
C19_NoPartialMatch ==
    Extracted =>
        LET text == prText.body
        IN /\ \A c \in Candidates(text) :
                 TooLong(c) => \A j \in c[1]..(c[1] + c[2] + c[3]) : j \notin KeyStarts(text)
           /\ SeqRange(ResultKeys) =
                 {toUpperCase(SubSeq(text, c[1], c[1] + c[2] + c[3])) :
                     c \in {d \in Candidates(text) : ~ TooLong(d)}}

\* A seven-digit number and a project key of 26 letters have given no key,
\* while the well-formed key next to them was extracted.
C19_Witness ==
    /\ Extracted
    /\ prText.body \in {"see PROJ-1234567, WEB-7", "WEB-7 ABCDEFGHIJKLMNOPQRSTUVWXYZ-12 web-7"}
    /\ ResultKeys = <<"WEB-7">>

\* What first-wins deduplication makes of an annotation list.
RECURSIVE FirstWins(_, _)
FirstWins(L, kept) ==
    IF Len(L) = 0 THEN kept
    ELSE LET k == IF L[1][2] = "web-7" THEN "WEB-7" ELSE "PROJ-1"
             a == IF L[1][1] = "fixes" THEN "fix" ELSE "close"
         IN FirstWins(SubSeq(L, 2, Len(L)),
                      IF \E n \in 1..Len(kept) : kept[n].issueKey = k THEN kept
                      ELSE Append(kept, [issueKey |-> k, action |-> a]))

\* C20: parseAnnotations deduplicates first-wins: at most one annotation per
\* normalized key, carrying the action of the key's first occurrence whatever
\* the later ones say, and the annotations of distinct keys stay in the order
\* of first appearance.
C20_FirstWins ==
    Parsed =>
        /\ \A a, b \in 1..Len(run[1].items) : a # b => ResultKeys[a] # ResultKeys[b]
        /\ \A L \in SeqsUpTo(AnnotationPairs, MaxAnnotations) :
              prText.body = Render(L) => run[1].items = FirstWins(L, <<>>)

\* A key annotated twice with different actions, then another key.
C20_Witness ==
    /\ Parsed
    /\ prText.body = "fixes PROJ-1, Close proj-1, Close web-7"
    /\ run[1].items = <<[issueKey |-> "PROJ-1", action |-> "fix"],
                        [issueKey |-> "WEB-7", action |-> "close"]>>

\* The keys of text that follow a keyword standing as a complete word: a word
\* boundary before the keyword and after it.
WholeWordKeys(text) ==
    {toUpperCase(SubSeq(text, AnnotationMatch(text, i)[2], AnnotationMatch(text, i)[3])) :
        i \in {j \in 1..Len(text) :
                  /\ AnnotationMatch(text, j)[3] # 0
                  /\ WordBoundary(text, j)
                  /\ WordBoundary(text, j + AnnotationMatch(text, j)[1])}}

\* C21: parseAnnotations makes no annotation from a keyword inside a longer
\* word: the keyword of every annotation is a complete word of the text, so
\* "fixture" or "prefixes" followed by key-like characters gives none.
C21_KeywordIsWholeWord ==
    Parsed => \A n \in 1..Len(ResultKeys) : ResultKeys[n] \in WholeWordKeys(prText.body)

\* The action and the key the keyword table gives for a text made of one
\* keyword, a separator and a key.
TableAction(kw) ==
    IF kw \in {"fix", "fixes", "fixed", "resolve", "resolves", "resolved"} THEN "fix"
    ELSE IF kw \in {"close", "closes", "closed"} THEN "close"
    ELSE "none"

TableKey(key) == IF key = "web-7" THEN "WEB-7" ELSE key

\* C22: every keyword, in any letter case, with an optional colon and an
\* optional '#' before the key, gives the action of the keyword table (fix for
\* fix/fixes/fixed/resolve/resolves/resolved, close for close/closes/closed)
\* and the key in upper case.
C22_KeywordToAction ==
    Parsed =>
        \A c \in KeywordCases :
            c.text = prText.body =>
                run[1].items = <<[issueKey |-> TableKey(c.key), action |-> TableAction(c.keyword)]>>

C22_Witness ==
    /\ Parsed
    /\ prText.body = "CLOSES: #web-7"
    /\ run[1].items = <<[issueKey |-> "WEB-7", action |-> "close"]>>

\* C23: in Workflow A, when the tracker reports that the issue of key k does
\* not exist, the run posts no link comment for k and makes no marker step for
\* k, logs a warning and no error or failure, and goes on with the keys after k.
C23_MissingIssueSkipped ==
    \A p \in Procs :
        run[p].wf = "A" =>
            \A n \in 1..Len(run[p].items) :
                LET k == run[p].items[n].issueKey
                IN LoggedWith(p, "issueExists", k, "false") # {} =>
                      /\ Logged(p, "addComment", k) = {}
                      /\ MarkerSteps(p, k) = {}
                      /\ LoggedWith(p, "warning", k, "not found") # {}
                      /\ Logged(p, "error", k) = {}
                      /\ Logged(p, "setFailed", "") = {}
                      /\ (run[p].i > n \/ run[p].pc = "done")
                      /\ \A m \in (n + 1)..Len(run[p].items) :
                            (m < run[p].i \/ run[p].pc = "done")
                                => Logged(p, "markerCheck", run[p].items[m].issueKey) # {}

\* A Workflow A run has returned: the issue of its first key was reported
\* missing, the link comment of its second key was posted and marked, and the
\* SyncTarget holds no link marker for the first key.
C23_Witness ==
    \E p \in Procs :
        /\ run[p].wf = "A"
        /\ run[p].pc = "done"
        /\ Len(run[p].items) = 2
        /\ LoggedWith(p, "issueExists", run[p].items[1].issueKey, "false") # {}
        /\ LoggedWith(p, "markerWrite", run[p].items[2].issueKey, "ok") # {}
        /\ ~ TargetHolds("A", run[p].items[1].issueKey)

\* The place of key k among the items of run p.
ItemIndex(p, k) == CHOOSE n \in 1..Len(run[p].items) : run[p].items[n].issueKey = k

ExternalCalls ==
    {"markerCheck", "issueExists", "getIssue", "updateIssueStatus", "addComment",
     "markerRead", "markerWrite"}

\* C24: a run works on one item at a time, in the order of the parser's
\* result: every call it has made belongs to an item up to the current one, no
\* call of an earlier item comes after a call of a later item, each call is
\* made at most once for an item, and every call made has returned or thrown.
C24_OneItemAtATime ==
    \A p \in Procs :
        LET log == run[p].log
            calls == {n \in 1..Len(log) : log[n].op \in ExternalCalls}
        IN /\ \A n \in calls :
                /\ log[n].key \in ItemKeys(p)
                /\ ItemIndex(p, log[n].key) <= run[p].i
                /\ log[n].res \in {"ok", "error", "true", "false", "present", "absent"}
                /\ Cardinality(Logged(p, log[n].op, log[n].key)) = 1
           /\ \A m, n \in calls :
                m < n => ItemIndex(p, log[m].key) <= ItemIndex(p, log[n].key)
           /\ \A n \in 1..Len(run[p].items) :
                ItemIndex(p, run[p].items[n].issueKey) = n

\* A run has returned after calls for two items, one of which threw.
C24_Witness ==
    \E p \in Procs :
        /\ run[p].pc = "done"
        /\ Len(run[p].items) = 2
        /\ \E m, n \in 1..Len(run[p].log) :
              /\ m < n
              /\ run[p].log[m].op \in ExternalCalls
              /\ run[p].log[m].res = "error"
              /\ run[p].log[m].key = run[p].items[1].issueKey
              /\ run[p].log[n].op = "markerWrite"
              /\ run[p].log[n].key = run[p].items[2].issueKey

\* Run p has the side effect of its workflow for key k on record.
SideEffectDone(p, k) ==
    /\ LoggedWith(p, "addComment", k, "ok") # {}
    /\ run[p].wf = "B" => LoggedWith(p, "updateIssueStatus", k, "ok") # {}

\* Run p has left key k behind without a failed call and without a missing issue.
PassedClean(p, k) ==
    /\ k \in ItemKeys(p)
    /\ (ItemIndex(p, k) < run[p].i \/ run[p].pc = "done")
    /\ \A n \in 1..Len(run[p].log) :
          run[p].log[n].key = k => run[p].log[n].res \notin {"error", "false", "caught"}

\* C25: when the marker write of (op, k) fails after the side effect succeeded,
\* the run logs the failure for that item and goes on with the next one, the
\* failed write leaves the SyncTarget as it was (it adds no marker of (op, k)),
\* and the other run of the same workflow, when its calls for k all succeed,
\* performs the side effect of (op, k) again.
C25_FailedWriteRepeats ==
    [][ \A p \in Procs :
          /\ (/\ run[p].pc = "wwrite"
              /\ Len(run'[p].log) > Len(run[p].log)
              /\ run'[p].log[Len(run[p].log) + 1].res = "error")
             => LET k == run[p].items[run[p].i].issueKey
                IN /\ SideEffectDone(p, k)
                   /\ run'[p].log = run[p].log \o
                         <<Entry("markerWrite", k, "", "error"),
                           Entry(IF run[p].wf = "A" THEN "warning" ELSE "error",
                                 k, "", "caught")>>
                   /\ IF run[p].i < Len(run[p].items)
                      THEN run'[p].i = run[p].i + 1 /\ run'[p].pc = "check"
                      ELSE run'[p].pc = "done"
                   /\ UNCHANGED <<prBody, prComments, linkDone, mergeDone, tracker>>
          /\ \A q \in Procs \ {p} : \A k \in AllKeys :
                (/\ run[q].wf = run[p].wf
                 /\ LoggedWith(q, "markerWrite", k, "error") # {}
                 /\ PassedClean(p, k))
                => SideEffectDone(p, k) ]_vars

\* The marker write of a key failed in one run, and another run of the same
\* workflow has performed the side effect for the key a second time and has
\* written the marker.
C25_Witness ==
    \E p \in Procs : \E q \in Procs \ {p} : \E k \in AllKeys :
        /\ run[q].wf = run[p].wf
        /\ LoggedWith(q, "markerWrite", k, "error") # {}
        /\ PassedClean(p, k)
        /\ LoggedWith(p, "markerWrite", k, "ok") # {}
        /\ \/ run[p].wf = "A" /\ tracker[k].link = 2
           \/ run[p].wf = "B" /\ tracker[k].updates = 2 /\ tracker[k].merge = 2

\* The place of a step in processAnnotation.
StepRank(op) ==
    CASE op = "markerCheck" -> 1
      [] op = "getIssue" -> 2
      [] op = "updateIssueStatus" -> 3
      [] op = "addComment" -> 4
      [] op = "markerRead" -> 5
      [] op = "markerWrite" -> 6
      [] OTHER -> 7

\* C26: the steps of Workflow B for one annotation come in the order marker
\* check, getIssue, updateIssueStatus, confirmation addComment, marker write,
\* each one only after the one before it succeeded; a failed step is followed
\* by the item's error entry and by no other step for the annotation: after a
\* failed updateIssueStatus no confirmation comment and no marker step, after
\* a failed addComment no marker step.
C26_StepOrderB ==
    \A p \in Procs :
        run[p].wf = "B" =>
            LET log == run[p].log
            IN /\ \A n \in 1..Len(log) :
                    LET k == log[n].key
                        rank == StepRank(log[n].op)
                    IN /\ rank = 1 =>
                            n = 1 \/ log[n - 1].key # k
                       /\ rank \in 2..6 =>
                            /\ n > 1
                            /\ log[n - 1].key = k
                            /\ log[n - 1].res \in {"absent", "ok"}
                            /\ StepRank(log[n - 1].op) =
                                  IF rank = 6 /\ variant = "comment" THEN 4 ELSE rank - 1
                       /\ rank = 7 =>
                            /\ n > 1
                            /\ log[n - 1].key = k
                            /\ log[n - 1].res = "error"
                            /\ StepRank(log[n - 1].op) \in 1..6
                       /\ (log[n].res = "error" /\ n < Len(log)) =>
                            /\ log[n + 1] = Entry("error", k, "", "caught")
                            /\ \A m \in (n + 2)..Len(log) : log[m].key # k
               /\ \A k \in ItemKeys(p) :
                    /\ LoggedWith(p, "updateIssueStatus", k, "error") # {}
                          => Logged(p, "addComment", k) = {} /\ MarkerSteps(p, k) = {}
                    /\ LoggedWith(p, "addComment", k, "error") # {}
                          => /\ LoggedWith(p, "updateIssueStatus", k, "ok") # {}
                             /\ MarkerSteps(p, k) = {}

\* A merge run has returned: updateIssueStatus failed for its first annotation,
\* the confirmation comment failed for its second after the status update.
C26_Witness ==
    \E p \in Procs :
        /\ run[p].wf = "B"
        /\ run[p].pc = "done"
        /\ Len(run[p].items) = 2
        /\ LoggedWith(p, "updateIssueStatus", run[p].items[1].issueKey, "error") # {}
        /\ LoggedWith(p, "addComment", run[p].items[2].issueKey, "error") # {}
        /\ tracker[run[p].items[2].issueKey].updates > 0

C28_AppendOnly ==
    [][ variant = "description" =>
          /\ StartsWithAt(prBody', prText.body, 1)
          /\ prBody' # prBody =>
                /\ run[1].pc = "wwrite"
                /\ StartsWithAt(prBody', run[1].body, 1)
                /\ StartsWithAt(prBody', prBody, 1)
                /\ Len(prBody') > Len(prBody)
                /\ \A k \in AllKeys : \A w \in {"A", "B"} :
                      TargetHolds(w, k) => TargetHolds(w, k)' ]_vars

\* The description holds the text the user wrote, then the link marker of one
\* key, then the merge marker of another key written by a later run.
C28_Witness ==
    /\ variant = "description"
    /\ prText.body # ""
    /\ \E k1, k2 \in AllKeys :
          /\ k1 # k2
          /\ prBody = prText.body \o linkSection(getConfig(inputs).host, k1)
                        \o statusSection(getConfig(inputs).host, k2, actionLabel("close"))

\* C29 as stated: the merge marker of a key is present only if the link marker
\* of the key is present as well.
C29_MergeOnlyAfterLink ==
    \A k \in AllKeys : TargetHolds("B", k) => TargetHolds("A", k)

\* C29, amended: the two markers of a key are written independently, each by
\* its own workflow.  With one run at a time the merge marker of k is present
\* exactly when a Workflow B run has updated the status of k, posted the
\* confirmation and written the marker; in the description-marker build the
\* link marker of k is present exactly when a Workflow A run has posted the
\* link comment and written the marker; neither needs the other.
C29_MarkersIndependent ==
    \A k \in AllKeys :
        /\ TargetHolds("B", k) <=> k \in mergeDone
        /\ k \in mergeDone => tracker[k].updates >= 1 /\ tracker[k].merge >= 1
        /\ variant = "description" => (TargetHolds("A", k) <=> k \in linkDone)
        /\ k \in linkDone => tracker[k].link >= 1

\* The merge of a key was processed and marked on a pull request that never
\* got the link marker or the link comment of the key.
C29_Witness ==
    \E k \in AllKeys :
        /\ TargetHolds("B", k)
        /\ ~ TargetHolds("A", k)
        /\ k \in mergeDone
        /\ tracker[k].link = 0
        /\ run[1].pc = "done"

\* C30: the already-handled check does not collide with text a person wrote:
\* a Workflow A run that reaches key k when no run before it has written a
\* marker for k, and whose check did not fail, is not made to skip k by a
\* description or a comment that mentions the issue; it goes on to ask the
\* tracker about k.
C30_UserTextNeverSkips ==
    \A p \in Procs :
        run[p].wf = "A" =>
            \A n \in 1..Len(run[p].items) :
                LET k == run[p].items[n].issueKey
                IN (/\ n < run[p].i \/ run[p].pc = "done"
                    /\ k \notin run[p].preLink \cup run[p].preMerge
                    /\ LoggedWith(p, "markerCheck", k, "error") = {})
                   => /\ LoggedWith(p, "markerCheck", k, "present") = {}
                      /\ Logged(p, "issueExists", k) # {}

\* C31: in the comment-based build the already-handled check looks at every
\* comment of the pull request: whenever some comment holds the marker of
\* (op, k), the check for (op, k) finds it, however many other comments there
\* are and wherever the marker comment sits among them.
C31_MarkerFoundAnywhere ==
    \A k \in AllKeys : \A w \in {"A", "B"} :
        (variant = "comment" /\ TargetHolds(w, k)) => CheckNow(w, k)

\* The most calls one item can take: marker check, getIssue, updateIssueStatus,
\* addComment, and the read and the write of the marker-writing operation.
CallsPerItem == 6

\* C32: no retry inside a run: a run makes each tracker call that has a side
\* effect (addComment in Workflow A; updateIssueStatus and addComment in
\* Workflow B) at most once for a key, a failed call is never followed by the
\* same call for the same key, and the calls of a run number at most
\* CallsPerItem for each of its items.
C32_NoRetry ==
    \A p \in Procs :
        LET log == run[p].log
            calls == {n \in 1..Len(log) : log[n].op \in ExternalCalls}
        IN /\ \A k \in ItemKeys(p) :
                /\ Cardinality(Logged(p, "addComment", k)) <= 1
                /\ Cardinality(Logged(p, "updateIssueStatus", k)) <= 1
           /\ \A n \in calls :
                log[n].res = "error" =>
                    \A m \in calls : m > n => ~ (log[m].op = log[n].op /\ log[m].key = log[n].key)
           /\ Cardinality(calls) <= CallsPerItem * Len(run[p].items)

\* A run has returned after the confirmation comment failed for one annotation
\* and every call succeeded for the other, which took all six calls.
C32_Witness ==
    \E p \in Procs :
        /\ run[p].pc = "done"
        /\ run[p].wf = "B"
        /\ Len(run[p].items) = 2
        /\ \E k1, k2 \in ItemKeys(p) :
              /\ LoggedWith(p, "addComment", k1, "error") # {}
              /\ Cardinality({n \in 1..Len(run[p].log) : run[p].log[n].key = k2
                                 /\ run[p].log[n].op \in ExternalCalls}) = CallsPerItem

\* C33: issueExists never throws: it returns true exactly when getIssue
\* returned the issue and false for every failure of getIssue, a failed request
\* included; so Workflow A handles a failed lookup of key k as the not-found
\* skip: the warning, no link comment and no marker step for k.
C33_IssueExistsNeverThrows ==
    \A p \in Procs :
        \A n \in 1..Len(run[p].log) :
            LET e == run[p].log[n]
            IN e.op = "issueExists" =>
                  /\ run[p].wf = "A"
                  /\ e.arg \in GetIssueOutcomes(e.key)
                  /\ e.res \in {"true", "false"}
                  /\ e.res = "true" <=> e.arg = "ok"
                  /\ e.res = "false" =>
                        /\ n < Len(run[p].log)
                        /\ run[p].log[n + 1] = Entry("warning", e.key, "", "not found")
                        /\ Logged(p, "addComment", e.key) = {}
                        /\ MarkerSteps(p, e.key) = {}
                        /\ Logged(p, "error", e.key) = {}

\* A Workflow A run has returned: the tracker had no issue for its first key,
\* the lookup request failed for its second, and both were skipped.
C33_Witness ==
    \E p \in Procs :
        /\ run[p].wf = "A"
        /\ run[p].pc = "done"
        /\ run[p].log =
              <<Entry("markerCheck", "OLD-9", "", "absent"),
                Entry("issueExists", "OLD-9", "notFound", "false"),
                Entry("warning", "OLD-9", "", "not found"),
                Entry("markerCheck", "PROJ-1", "", "absent"),
                Entry("issueExists", "PROJ-1", "transport", "false"),
                Entry("warning", "PROJ-1", "", "not found")>>

\* C34: the issue URL does not depend on the protocol prefix of the configured
\* host: buildBacklogIssueUrl gives the same URL for h, http://h and https://h,
\* so a link comment written under one form of the host is found by
\* hasBacklogComment under every form, and a run configured with another form
\* posts no second link comment for the key.
C34_HostFormIrrelevant ==
    /\ inputs.backlog_host \in HostForms
    /\ \A k \in AllKeys : \A h \in HostForms :
          /\ buildBacklogIssueUrl(h, k) = "https://example.backlog.com/view/" \o k
          /\ (variant = "comment" /\ k \in linkDone) => hasBacklogComment(h, k)
    /\ \A p \in Procs : \A k \in run[p].preLink :
          run[p].wf = "A" =>
              /\ Logged(p, "issueExists", k) = {}
              /\ Logged(p, "addComment", k) = {}

\* The comment-based build posted the link comment of a key while the host was
\* configured without the http:// prefix; the host was then rewritten with it,
\* and the next run has found the comment and skipped the key.
C34_Witness ==
    /\ variant = "comment"
    /\ inputs.backlog_host = "http://example.backlog.com"
    /\ run[1].wf = "A"
    /\ run[1].pc = "done"
    /\ \E k \in run[1].preLink :
          /\ LoggedWith(1, "markerCheck", k, "present") # {}
          /\ tracker[k].link = 1

\* The keys the pull request names.
NamedKeys == SeqRange(extractIssueKeys(textToSearch(prText.title, prText.body)))

\* C35: convergence under re-delivery: when the opened event of a pull request
\* that is no draft is delivered again and again, one run at a time, and calls
\* succeed in the end, the link marker of every existing issue the pull request
\* names is present from some point on; while the marker of k is present no
\* step makes a tracker call for k; and a step that fails writes no marker.
C35_Convergence ==
    /\ <>[](\A k \in NamedKeys : TargetHolds("A", k) /\ tracker[k].link >= 1)
    /\ [][ \A k \in AllKeys :
             /\ TargetHolds("A", k) =>
                   /\ tracker'[k] = tracker[k]
                   /\ TargetHolds("A", k)'
             /\ (run'[1].log # run[1].log /\ run[1].pc \notin {"idle", "done"}
                    /\ StepResult \in {"error", "false"})
                => UNCHANGED <<prBody, prComments, linkDone>> ]_vars

\* A run failed after it had posted the link comment, the event was delivered
\* again, and the marker of every key the pull request names is now present.
C35_Witness ==
    /\ NamedKeys # {}
    /\ \A k \in NamedKeys : TargetHolds("A", k)
    /\ \E k \in NamedKeys : tracker[k].link > 1
    /\ run[1].pc = "done"

\* How many times text p occurs in text s.
Occurrences(s, p) == Cardinality({i \in 1..Len(s) : StartsWithAt(s, p, i)})

\* C36: in the description-based build the description holds at most one copy
\* of the marker of each (op, k) in every reachable state, whatever the order
\* and the interleaving of the runs of Workflow A and Workflow B.
C36_AtMostOneCopy ==
    variant = "description" =>
        \A k \in NamedKeys :
            /\ Occurrences(prBody, buildBacklogLinkMarker(k)) <= 1
            /\ Occurrences(prBody, buildMergeMarker(k)) <= 1

\* Two overlapping runs both posted the link comment of a key and both wrote
\* the description; it holds one copy of the key's marker.
C36_Witness ==
    /\ variant = "description"
    /\ \E k \in NamedKeys :
          /\ LoggedWith(1, "markerWrite", k, "ok") # {}
          /\ LoggedWith(2, "markerWrite", k, "ok") # {}
          /\ run[1].wf = run[2].wf
          /\ Occurrences(prBody, IF run[1].wf = "A" THEN buildBacklogLinkMarker(k)
                                 ELSE buildMergeMarker(k)) = 1

\* Every item of run p has a call that failed.
EveryItemFailed(p) ==
    \A k \in ItemKeys(p) :
        \E n \in 1..Len(run[p].log) :
            run[p].log[n].key = k /\ run[p].log[n].res \in {"error", "false"}

\* C37: a failure of an item never fails the run: whatever calls fail, a run
\* that has reached handlePullRequestOpened or handlePullRequestMerged logs
\* each failure in the item's own entry (a warning in Workflow A, an error in
\* Workflow B), makes no setFailed call, and goes through all its items.
C37_ItemFailureNeverFatal ==
    \A p \in Procs :
        run[p].wf \in {"A", "B"} =>
            /\ \A n \in 1..Len(run[p].log) :
                  /\ run[p].log[n].op \notin {"setFailed", "throw"}
                  /\ run[p].log[n].res = "error" =>
                        /\ n < Len(run[p].log)
                        /\ run[p].log[n + 1] =
                              Entry(IF run[p].wf = "A" THEN "warning" ELSE "error",
                                    run[p].log[n].key, "", "caught")
            /\ run[p].pc = "done" =>
                  \A k \in ItemKeys(p) : Logged(p, "markerCheck", k) # {}

\* A merge run has returned without a setFailed call: the marker write failed
\* for its first annotation and the marker check for its second.
C37_Witness ==
    \E p \in Procs :
        /\ run[p].wf = "B"
        /\ run[p].pc = "done"
        /\ Len(run[p].items) = 2
        /\ EveryItemFailed(p)
        /\ LoggedWith(p, "markerWrite", run[p].items[1].issueKey, "error") # {}
        /\ LoggedWith(p, "markerCheck", run[p].items[2].issueKey, "error") # {}
        /\ Logged(p, "setFailed", "") = {}

\* C38: every issue key of parseAnnotations(text) is an issue key of
\* extractIssueKeys(text): an issue whose status Workflow B changes on merge is
\* an issue Workflow A links for the same title and description.
C38_AnnotatedKeysAreLinked ==
    Parsed =>
        \A n \in 1..Len(run[1].items) :
            run[1].items[n].issueKey \in SeqRange(extractIssueKeys(prText.body))
====
